---- MODULE Spec2Model ----
(***************************************************************************)
(* Invoice processing orchestration of stripe-invoice-sync:                *)
(* app/db/services.py (InvoiceProcessingService), app/db/crud.py (the CRUD *)
(* classes), app/db/models.py (tables and constraints) and the request     *)
(* handlers of app/api/endpoints/invoices.py.                              *)
(*                                                                         *)
(* Tables are sequences of rows; a row's autoincrement primary key is its  *)
(* index.  An ORM object handed back by a call is identified with the row  *)
(* it maps.  Every CRUD function commits on its own (db.commit() at the    *)
(* end of each), so a write made before an exception stays in the table.   *)
(***************************************************************************)
EXTENDS Integers, Sequences, FiniteSets, TLC

\* ------------------------------------------------------------------ bounds
MaxSteps    == 5    \* service calls and clock advances in one run
MaxReqs     == 2    \* requests in flight at the HTTP layer
TickMinutes == 30   \* one advance of the clock, in minutes
MaxManualRetries == 2   \* retry-queue rows the dashboard adds in one run
MaxTxnIntakes == 2      \* intakes before overlapping calls start

\* --------------------------------------------------------------- constants
RetryAttemptCap  == 3    \* services.py: `if invoice.attempts < 3`
BackoffMinutes   == 30   \* services.py: `retry_after_minutes=30 * invoice.attempts`
DefaultMaxRetries == 3   \* models.py: RetryQueue.max_retries default

\* Python None / SQL NULL for strings, and for timestamps
NULL   == "None"
NoTime == -1
\* Python truthiness of an Optional[str]: None and "" are falsy
Truthy(s) == s # NULL /\ s # ""

SourceIds == {"ch_1", "ch_2"}
Providers == {"anaf", "smartbill"}
Amounts   == {119}
\* the submissions asked for: one source for two providers, two sources for
\* one provider
Pairs == {<<"ch_1", "anaf">>, <<"ch_1", "smartbill">>, <<"ch_2", "anaf">>}

\* models.py ProcessingStatus
PENDING    == "pending"
PROCESSING == "processing"
COMPLETED  == "completed"
FAILED     == "failed"
RETRY      == "retry"
CANCELLED  == "cancelled"
ProcessingStatus == {PENDING, PROCESSING, COMPLETED, FAILED, RETRY, CANCELLED}

\* provider_interface.py ProviderResponse (status, errors, timestamp are not
\* read by the service; data is reduced to data["xml"], NULL when absent)
ProviderResponse(success, provider, invoice_id, external_id, message, xml) ==
    [success |-> success, provider |-> provider, invoice_id |-> invoice_id,
     external_id |-> external_id, message |-> message, errors |-> <<>>,
     data_xml |-> xml]

\* The results a provider (or a test) hands to the service.  Both providers
\* answer a success with invoice_id and external_id set to different values
\* and a failure with message unset; the tests build failures with a message.
Responses(p) ==
    { ProviderResponse(TRUE,  p, "INV-1", "EXT-1", "sent", "<x1>"),
      ProviderResponse(TRUE,  p, NULL,    NULL,    "sent", "<x2>"),
      ProviderResponse(FALSE, p, NULL,    NULL,    "E1",   NULL),
      ProviderResponse(FALSE, p, NULL,    NULL,    NULL,   NULL) }

VARIABLES
    invoices,      \* processed_invoices
    history,       \* processing_history
    audit,         \* audit_logs
    retry_queue,   \* retry_queue
    documents,     \* invoice_documents
    now,           \* datetime.utcnow(), in minutes
    steps,         \* calls and clock advances so far
    last,          \* the last service call: arguments, outcome, what it returned
    reqs,          \* HTTP requests in flight
    submitted      \* provider.create_invoice calls made, per (source_id, provider)

vars == <<invoices, history, audit, retry_queue, documents, now, steps, last, reqs,
          submitted>>
db   == <<invoices, history, audit, retry_queue, documents>>


Min(S) == CHOOSE x \in S : \A y \in S : x <= y

\* ----------------------------------------------------------- crud.py: rows
\* NewInvoice as it would be if creation counted as the first attempt
NewInvoice_attempt_counted(stripe_id, provider, amount, t) ==
    [stripe_id |-> stripe_id, provider |-> provider, provider_invoice_id |-> NULL,
     status |-> PENDING, amount |-> amount, attempts |-> 1, last_error |-> NULL,
     processed_at |-> NoTime, created_at |-> t]

\* ProcessedInvoice(...) as InvoiceCRUD.create_invoice builds it
NewInvoice(stripe_id, provider, amount, t) ==
    [stripe_id |-> stripe_id, provider |-> provider, provider_invoice_id |-> NULL,
     status |-> PENDING, amount |-> amount, attempts |-> 0, last_error |-> NULL,
     processed_at |-> NoTime, created_at |-> t]

\* check_duplicate as it would be if it looked for unprocessed records only
check_duplicate_pending_only(invs, stripe_id, provider) ==
    LET m == { i \in 1..Len(invs) : invs[i].stripe_id = stripe_id
                                    /\ invs[i].provider = provider
                                    /\ invs[i].status = PENDING }
    IN  IF m = {} THEN 0 ELSE Min(m)

\* check_duplicate as it would be if it filtered on stripe_id alone
check_duplicate_any_provider(invs, stripe_id, provider) ==
    LET m == { i \in 1..Len(invs) : invs[i].stripe_id = stripe_id }
    IN  IF m = {} THEN 0 ELSE Min(m)

\* InvoiceCRUD.check_duplicate: the id of the row with this stripe_id and
\* provider, 0 for None
check_duplicate(invs, stripe_id, provider) ==
    LET m == { i \in 1..Len(invs) : invs[i].stripe_id = stripe_id
                                    /\ invs[i].provider = provider }
    IN  IF m = {} THEN 0 ELSE Min(m)

\* the table without the constraint: no insert is ever refused
uix_stripe_provider_dropped(invs, row) == FALSE

\* UniqueConstraint('stripe_id', 'provider', name='uix_stripe_provider'):
\* TRUE when inserting the row would violate it
uix_stripe_provider(invs, row) ==
    \E i \in 1..Len(invs) : invs[i].stripe_id = row.stripe_id
                            /\ invs[i].provider = row.provider

\* InvoiceCRUD.create_invoice: db.add + db.commit; the commit raises
\* IntegrityError (a SQLAlchemyError) when the unique constraint is violated
create_invoice(invs, stripe_id, provider, amount, t) ==
    LET row == NewInvoice(stripe_id, provider, amount, t)
    IN  IF uix_stripe_provider(invs, row)
        THEN [raised |-> "IntegrityError", invoices |-> invs, id |-> 0]
        ELSE [raised |-> NULL, invoices |-> Append(invs, row), id |-> Len(invs) + 1]

\* update_status as it would be if only a completed attempt were counted
update_status_counts_completed(invs, invoice_id, status, provider_invoice_id, error_message, t) ==
    [invs EXCEPT ![invoice_id] =
        [@ EXCEPT !.status = status,
                  !.attempts = IF status = COMPLETED THEN @ + 1 ELSE @,
                  !.provider_invoice_id =
                      IF Truthy(provider_invoice_id) THEN provider_invoice_id ELSE @,
                  !.last_error = IF Truthy(error_message) THEN error_message ELSE @,
                  !.processed_at = IF status = COMPLETED THEN t ELSE @]]

\* update_status as it would be if a call without an error message wiped
\* the stored one
update_status_clears_error(invs, invoice_id, status, provider_invoice_id, error_message, t) ==
    [invs EXCEPT ![invoice_id] =
        [@ EXCEPT !.status = status,
                  !.attempts = @ + 1,
                  !.provider_invoice_id =
                      IF Truthy(provider_invoice_id) THEN provider_invoice_id ELSE @,
                  !.last_error = IF Truthy(error_message) THEN error_message ELSE NULL,
                  !.processed_at = IF status = COMPLETED THEN t ELSE @]]

\* InvoiceCRUD.update_status, for an invoice_id that exists
update_status(invs, invoice_id, status, provider_invoice_id, error_message, t) ==
    [invs EXCEPT ![invoice_id] =
        [@ EXCEPT !.status = status,
                  !.attempts = @ + 1,
                  !.provider_invoice_id =
                      IF Truthy(provider_invoice_id) THEN provider_invoice_id ELSE @,
                  !.last_error = IF Truthy(error_message) THEN error_message ELSE @,
                  !.processed_at = IF status = COMPLETED THEN t ELSE @]]

\* ProcessingHistoryCRUD.create_history
create_history(hist, invoice_id, stripe_id, provider, action, status, t) ==
    Append(hist, [invoice_id |-> invoice_id, stripe_id |-> stripe_id,
                  provider |-> provider, action |-> action, status |-> status,
                  error_message |-> NULL, started_at |-> t,
                  completed_at |-> NoTime, duration_ms |-> NoTime])

\* complete_history as it would be if it selected the rows by the invoice
\* of the entry instead of by the id of the entry
complete_history_by_invoice(hist, history_id, status, error_message, t) ==
    [i \in 1..Len(hist) |->
        IF hist[i].invoice_id = hist[history_id].invoice_id
        THEN [hist[i] EXCEPT !.status = status,
                             !.completed_at = t,
                             !.duration_ms = (t - hist[i].started_at) * 60000,
                             !.error_message =
                                 IF Truthy(error_message) THEN error_message ELSE @]
        ELSE hist[i]]

\* ProcessingHistoryCRUD.complete_history, for a history_id that exists
complete_history(hist, history_id, status, error_message, t) ==
    LET h == hist[history_id]
    IN  [hist EXCEPT ![history_id] =
            [h EXCEPT !.status = status,
                      !.completed_at = t,
                      !.duration_ms = (t - h.started_at) * 60000,
                      !.error_message =
                          IF Truthy(error_message) THEN error_message ELSE @]]

\* AuditLogCRUD.create_audit_log (event_type "invoice_processing" and
\* resource_type "invoice" in every call of the service)
create_audit_log(log, resource_id, action, extra_metadata) ==
    Append(log, [resource_id |-> resource_id, action |-> action,
                 extra_metadata |-> extra_metadata])

\* RetryQueueCRUD.add_to_retry_queue
add_to_retry_queue(queue, invoice_id, stripe_id, provider, error_message, retry_after_minutes, t) ==
    Append(queue, [invoice_id |-> invoice_id, stripe_id |-> stripe_id,
                   provider |-> provider, retry_count |-> 0,
                   max_retries |-> DefaultMaxRetries,
                   retry_after |-> t + retry_after_minutes,
                   last_error |-> error_message, active |-> TRUE,
                   completed |-> FALSE])

\* the filter without its provider condition
ReadyRetries_any_provider(queue, provider, t) ==
    { i \in 1..Len(queue) :
        /\ queue[i].active
        /\ ~queue[i].completed
        /\ queue[i].retry_after <= t
        /\ queue[i].retry_count < queue[i].max_retries }

\* the filter without its retry_after condition
ReadyRetries_any_time(queue, provider, t) ==
    { i \in 1..Len(queue) :
        /\ queue[i].active
        /\ ~queue[i].completed
        /\ queue[i].retry_count < queue[i].max_retries
        /\ (Truthy(provider) => queue[i].provider = provider) }

\* RetryQueueCRUD.get_ready_retries: the filter (provider NULL for no filter)
ReadyRetries(queue, provider, t) ==
    { i \in 1..Len(queue) :
        /\ queue[i].active
        /\ ~queue[i].completed
        /\ queue[i].retry_after <= t
        /\ queue[i].retry_count < queue[i].max_retries
        /\ (Truthy(provider) => queue[i].provider = provider) }

\* RetryQueueCRUD.get_ready_retries: the lists ORDER BY retry_after may give
\* (rows with equal retry_after come in either order)
get_ready_retries(queue, provider, t) ==
    LET ready == ReadyRetries(queue, provider, t)
        n == Cardinality(ready)
    IN  { s \in [1..n -> ready] :
            /\ \A i, j \in 1..n : i # j => s[i] # s[j]
            /\ \A i, j \in 1..n :
                   i < j => queue[s[i]].retry_after <= queue[s[j]].retry_after }

\* update_retry without the exhaustion test: a failure always reschedules
update_retry_always_reschedules(queue, retry_id, success, error_message, retry_after_minutes, t) ==
    LET r  == queue[retry_id]
        rc == r.retry_count + 1
    IN  [queue EXCEPT ![retry_id] =
            IF success
            THEN [r EXCEPT !.retry_count = rc, !.completed = TRUE, !.active = FALSE]
            ELSE [r EXCEPT
                    !.retry_count = rc,
                    !.last_error = IF Truthy(error_message) THEN error_message ELSE @,
                    !.retry_after = t + retry_after_minutes]]

\* update_retry as it would be if a rescheduled row were switched on again
update_retry_reactivates(queue, retry_id, success, error_message, retry_after_minutes, t) ==
    LET r  == queue[retry_id]
        rc == r.retry_count + 1
    IN  [queue EXCEPT ![retry_id] =
            IF success
            THEN [r EXCEPT !.retry_count = rc, !.completed = TRUE, !.active = FALSE]
            ELSE [r EXCEPT
                    !.retry_count = rc,
                    !.last_error = IF Truthy(error_message) THEN error_message ELSE @,
                    !.active = IF rc >= r.max_retries THEN FALSE ELSE TRUE,
                    !.retry_after = IF rc >= r.max_retries
                                    THEN @ ELSE t + retry_after_minutes]]

\* RetryQueueCRUD.update_retry, for a retry_id that exists
update_retry(queue, retry_id, success, error_message, retry_after_minutes, t) ==
    LET r  == queue[retry_id]
        rc == r.retry_count + 1
    IN  [queue EXCEPT ![retry_id] =
            IF success
            THEN [r EXCEPT !.retry_count = rc, !.completed = TRUE, !.active = FALSE]
            ELSE [r EXCEPT
                    !.retry_count = rc,
                    !.last_error = IF Truthy(error_message) THEN error_message ELSE @,
                    !.active = IF rc >= r.max_retries THEN FALSE ELSE @,
                    !.retry_after = IF rc >= r.max_retries
                                    THEN @ ELSE t + retry_after_minutes]]

\* hashlib.sha256(content.encode()).hexdigest(): one digest per content
Sha256(content) == "sha256:" \o content

\* a lookup that never finds the stored document
get_document_misses(docs, invoice_id, document_type, provider) == 0

\* InvoiceDocumentCRUD.get_document: id of the row of this key, 0 for None
get_document(docs, invoice_id, document_type, provider) ==
    LET m == { i \in 1..Len(docs) : docs[i].invoice_id = invoice_id
                                    /\ docs[i].document_type = document_type
                                    /\ docs[i].provider = provider }
    IN  IF m = {} THEN 0 ELSE Min(m)

\* InvoiceDocumentCRUD.save_document
save_document(docs, invoice_id, stripe_id, provider, document_type, content, file_size, checksum) ==
    Append(docs, [invoice_id |-> invoice_id, stripe_id |-> stripe_id,
                  provider |-> provider, document_type |-> document_type,
                  document_content |-> content, file_size |-> file_size,
                  checksum |-> checksum])

\* _save_invoice_document as it would be if the document were stored
\* without its checksum
SaveInvoiceDocument_no_checksum(docs, invoice_id, stripe_id, provider, document_type, content) ==
    IF get_document(docs, invoice_id, document_type, provider) = 0
    THEN save_document(docs, invoice_id, stripe_id, provider, document_type,
                       content, Len(content), NULL)
    ELSE docs

\* InvoiceProcessingService._save_invoice_document
SaveInvoiceDocument(docs, invoice_id, stripe_id, provider, document_type, content) ==
    IF get_document(docs, invoice_id, document_type, provider) = 0
    THEN save_document(docs, invoice_id, stripe_id, provider, document_type,
                       content, Len(content), Sha256(content))
    ELSE docs


\* ------------------------------------------------- services.py: the service
\* A service operation below says what the call does to the tables and what
\* it hands back (last); its caller says what else stays as it was.
Actions == {"create_invoice"}

\* extra_metadata of the four audit entries the service writes
DuplicateMeta(provider, existing_id, status) ==
    [provider |-> provider, existing_invoice_id |-> existing_id, status |-> status]
CreatedMeta(provider, amount) == [provider |-> provider, amount |-> amount]
CompletedMeta(resp) ==
    [provider |-> resp.provider, provider_invoice_id |-> resp.invoice_id]
FailedMeta(resp, attempts) ==
    [provider |-> resp.provider, error |-> resp.error, attempts |-> attempts]

\* IntakeDuplicate as it would be if the duplicate path also logged a
\* history entry for the record
IntakeDuplicate_with_history(source_id, provider, amount) ==
    LET existing == check_duplicate(invoices, source_id, provider)
    IN  /\ existing # 0
        /\ history' = create_history(history, existing, source_id, provider,
                                     "duplicate_detected", "success", now)
        /\ audit' = create_audit_log(audit, source_id, "duplicate_detected",
                        DuplicateMeta(provider, existing, invoices[existing].status))
        /\ last' = [op |-> "intake", source_id |-> source_id, provider |-> provider,
                    raised |-> NULL, invoice_id |-> existing,
                    invoice |-> invoices[existing], is_duplicate |-> TRUE]
        /\ UNCHANGED <<invoices, retry_queue, documents>>

\* IntakeDuplicate as it would be if the duplicate path brought the stored
\* record up to date with the data of the new call
IntakeDuplicate_overwrites_snapshot(source_id, provider, amount) ==
    LET existing == check_duplicate(invoices, source_id, provider)
    IN  /\ existing # 0
        /\ invoices' = [invoices EXCEPT ![existing].amount = amount]
        /\ audit' = create_audit_log(audit, source_id, "duplicate_detected",
                        DuplicateMeta(provider, existing, invoices[existing].status))
        /\ last' = [op |-> "intake", source_id |-> source_id, provider |-> provider,
                    raised |-> NULL, invoice_id |-> existing,
                    invoice |-> invoices'[existing], is_duplicate |-> TRUE]
        /\ UNCHANGED <<history, retry_queue, documents>>

\* process_invoice_with_duplicate_check, lines 56-71: a record exists
IntakeDuplicate(source_id, provider, amount) ==
    LET existing == check_duplicate(invoices, source_id, provider)
    IN  /\ existing # 0
        /\ audit' = create_audit_log(audit, source_id, "duplicate_detected",
                        DuplicateMeta(provider, existing, invoices[existing].status))
        /\ last' = [op |-> "intake", source_id |-> source_id, provider |-> provider,
                    raised |-> NULL, invoice_id |-> existing,
                    invoice |-> invoices[existing], is_duplicate |-> TRUE]
        /\ UNCHANGED <<invoices, history, retry_queue, documents>>

\* process_invoice_with_duplicate_check, lines 73-129: the insert, the
\* "created" history entry and the audit entry; an IntegrityError of the
\* insert is logged and raised again (lines 127-129)
InsertNew(source_id, provider, amount) ==
    LET c == create_invoice(invoices, source_id, provider, amount, now)
    IN  /\ IF c.raised # NULL
           THEN /\ last' = [op |-> "intake", source_id |-> source_id,
                            provider |-> provider, raised |-> c.raised,
                            invoice_id |-> 0, is_duplicate |-> FALSE]
                /\ UNCHANGED <<invoices, history, audit>>
           ELSE /\ invoices' = c.invoices
                /\ history' = create_history(history, c.id, source_id, provider,
                                             "created", "success", now)
                /\ audit' = create_audit_log(audit, source_id, "created",
                                             CreatedMeta(provider, amount))
                /\ last' = [op |-> "intake", source_id |-> source_id,
                            provider |-> provider, raised |-> NULL,
                            invoice_id |-> c.id, invoice |-> c.invoices[c.id],
                            is_duplicate |-> FALSE]
        /\ UNCHANGED <<retry_queue, documents>>

\* process_invoice_with_duplicate_check, lines 52-56 and 73: no record exists
IntakeCreate(source_id, provider, amount) ==
    /\ check_duplicate(invoices, source_id, provider) = 0
    /\ InsertNew(source_id, provider, amount)

\* InvoiceProcessingService.process_invoice_with_duplicate_check, run from
\* its first line to its last with no other call in between
process_invoice_with_duplicate_check(source_id, provider, amount) ==
    \/ IntakeDuplicate(source_id, provider, amount)
    \/ IntakeCreate(source_id, provider, amount)

\* update_invoice_status_with_history, lines 150-159: the history entry
\* opened before the invoice is looked up (stripe_id "" until it is)
OpenHistory(invoice_id, resp, action) ==
    create_history(history, invoice_id, "", resp.provider, action, "processing", now)

\* line 170, history.stripe_id = invoice.stripe_id: written to the table by
\* the next commit of the session (update_status's)
FillStripeId(hist, invoice_id) ==
    [hist EXCEPT ![Len(hist)].stripe_id = invoices[invoice_id].stripe_id]

\* Reading an attribute of a ProviderResponse: AttributeError for a name the
\* class does not define
HasAttr(resp, name) == name \in DOMAIN resp

\* update_invoice_status_with_history, lines 166-167: unknown invoice_id
ApplyNotFound(invoice_id, resp, action) ==
    /\ invoice_id \notin 1..Len(invoices)
    /\ history' = OpenHistory(invoice_id, resp, action)
    /\ last' = [op |-> "apply", invoice_id |-> invoice_id, resp |-> resp,
                raised |-> "ValueError"]
    /\ UNCHANGED <<invoices, audit, retry_queue, documents>>

\* update_invoice_status_with_history, lines 172-209: provider_response.success
ApplySuccess(invoice_id, resp, action) ==
    LET h1   == FillStripeId(OpenHistory(invoice_id, resp, action), invoice_id)
        invs == update_status(invoices, invoice_id, COMPLETED, resp.invoice_id,
                              NULL, now)
        inv  == invs[invoice_id]
    IN  /\ invoice_id \in 1..Len(invoices)
        /\ resp.success
        /\ invoices' = invs
        /\ history' = complete_history(h1, Len(h1), "success", NULL, now)
        /\ audit' = create_audit_log(audit, inv.stripe_id, "completed",
                                     CompletedMeta(resp))
        /\ documents' = IF resp.data_xml # NULL
                        THEN SaveInvoiceDocument(documents, invoice_id, inv.stripe_id,
                                                 resp.provider, "xml", resp.data_xml)
                        ELSE documents
        /\ last' = [op |-> "apply", invoice_id |-> invoice_id, resp |-> resp,
                    raised |-> NULL, invoice |-> inv]
        /\ UNCHANGED retry_queue

\* The failure branch as it would be with the error text read from
\* provider_response.message and a retry queued after every failure
ApplyFailure_enqueue_uncapped(invoice_id, resp, action) ==
    LET h1   == FillStripeId(OpenHistory(invoice_id, resp, action), invoice_id)
        invs == update_status(invoices, invoice_id, FAILED, NULL, resp.message, now)
        inv  == invs[invoice_id]
    IN  /\ invoice_id \in 1..Len(invoices)
        /\ ~resp.success
        /\ invoices' = invs
        /\ history' = complete_history(h1, Len(h1), "failed", resp.message, now)
        /\ retry_queue' = add_to_retry_queue(retry_queue, invoice_id, inv.stripe_id,
                                             resp.provider, resp.message,
                                             BackoffMinutes * inv.attempts, now)
        /\ audit' = create_audit_log(audit, inv.stripe_id, "failed",
                                     [provider |-> resp.provider, attempts |-> inv.attempts])
        /\ last' = [op |-> "apply", invoice_id |-> invoice_id, resp |-> resp,
                    raised |-> NULL, invoice |-> inv]
        /\ UNCHANGED documents

\* update_invoice_status_with_history, lines 211-252: not success.
\* update_status has committed when line 225 reads provider_response.error,
\* an attribute ProviderResponse does not have: the AttributeError leaves the
\* call there, with the history entry still "processing".
ApplyFailure(invoice_id, resp, action) ==
    LET h1   == FillStripeId(OpenHistory(invoice_id, resp, action), invoice_id)
        invs == update_status(invoices, invoice_id, FAILED, NULL, resp.message, now)
        inv  == invs[invoice_id]
    IN  /\ invoice_id \in 1..Len(invoices)
        /\ ~resp.success
        /\ invoices' = invs
        /\ IF ~HasAttr(resp, "error")
           THEN /\ history' = h1
                /\ last' = [op |-> "apply", invoice_id |-> invoice_id, resp |-> resp,
                            raised |-> "AttributeError"]
                /\ UNCHANGED <<audit, retry_queue>>
           ELSE /\ history' = complete_history(h1, Len(h1), "failed", resp.error, now)
                /\ retry_queue' =
                      IF inv.attempts < RetryAttemptCap
                      THEN add_to_retry_queue(retry_queue, invoice_id, inv.stripe_id,
                                              resp.provider, resp.error,
                                              BackoffMinutes * inv.attempts, now)
                      ELSE retry_queue
                /\ audit' = create_audit_log(audit, inv.stripe_id, "failed",
                                             FailedMeta(resp, inv.attempts))
                /\ last' = [op |-> "apply", invoice_id |-> invoice_id, resp |-> resp,
                            raised |-> NULL, invoice |-> inv]
        /\ UNCHANGED documents

\* InvoiceProcessingService.update_invoice_status_with_history
update_invoice_status_with_history(invoice_id, resp, action) ==
    \/ ApplyNotFound(invoice_id, resp, action)
    \/ ApplySuccess(invoice_id, resp, action)
    \/ ApplyFailure(invoice_id, resp, action)

\* MarkRetry, had the loop gone through InvoiceCRUD.update_status (which
\* counts an attempt) instead of assigning the status
MarkRetry_counts_attempt(invs, queue, retries) ==
    [id \in 1..Len(invs) |->
        IF \E k \in 1..Len(retries) : queue[retries[k]].invoice_id = id
        THEN [invs[id] EXCEPT !.status = RETRY, !.attempts = @ + 1]
        ELSE invs[id]]

\* MarkRetry, had the loop gone over every row of the queue instead of the
\* ready ones
MarkRetry_every_row(invs, queue, retries) ==
    [id \in 1..Len(invs) |->
        IF \E r \in 1..Len(queue) : queue[r].invoice_id = id
        THEN [invs[id] EXCEPT !.status = RETRY]
        ELSE invs[id]]

RECURSIVE MarkRetry(_, _, _)
\* process_retry_queue, lines 399-417: the loop over the ready retries;
\* each invoice found gets status RETRY (and a commit)
MarkRetry(invs, queue, retries) ==
    IF retries = <<>> THEN invs
    ELSE LET id == queue[Head(retries)].invoice_id
         IN  MarkRetry(IF id \in 1..Len(invs)
                       THEN [invs EXCEPT ![id].status = RETRY] ELSE invs,
                       queue, Tail(retries))

\* process_retry_queue, lines 405-413: the results list
RetryResults(invs, queue, retries) ==
    LET found == SelectSeq(retries, LAMBDA r : queue[r].invoice_id \in 1..Len(invs))
    IN  [k \in 1..Len(found) |->
            [retry_id |-> found[k], invoice_id |-> queue[found[k]].invoice_id,
             stripe_id |-> invs[queue[found[k]].invoice_id].stripe_id,
             provider |-> invs[queue[found[k]].invoice_id].provider,
             retry_count |-> queue[found[k]].retry_count,
             status |-> "pending_retry"]]

\* InvoiceProcessingService.process_retry_queue (provider NULL: no filter)
process_retry_queue(provider) ==
    \E retries \in get_ready_retries(retry_queue, provider, now) :
        /\ invoices' = MarkRetry(invoices, retry_queue, [k \in 1..Len(retries) |-> retries[k]])
        /\ last' = [op |-> "sweep", provider |-> provider, raised |-> NULL,
                    results |-> RetryResults(invoices, retry_queue,
                                             [k \in 1..Len(retries) |-> retries[k]])]
        /\ UNCHANGED <<history, audit, retry_queue, documents>>

\* services.py, lines 11-17: the names of app.db.models the module imports
ServiceImports == {"ProcessingStatus", "InvoiceType", "ProcessedInvoice"}

\* InvoiceProcessingService.get_invoice_full_history (provider NULL: no
\* filter): for each record found the view reads the record's first active
\* retry-queue row through the name RetryQueue (line 332), which the module
\* does not import: NameError.  A read-only call, on the tables given.
get_invoice_full_history(invs, queue, stripe_id, provider) ==
    LET found == { i \in 1..Len(invs) :
                     /\ invs[i].stripe_id = stripe_id
                     /\ (Truthy(provider) => invs[i].provider = provider) }
        retry_status(i) ==
            LET act == { r \in 1..Len(queue) :
                           queue[r].invoice_id = i /\ queue[r].active }
            IN  IF act = {} THEN NULL
                ELSE [active |-> TRUE,
                      retry_count |-> queue[Min(act)].retry_count,
                      retry_after |-> queue[Min(act)].retry_after,
                      last_error |-> queue[Min(act)].last_error]
    IN  IF found = {}
        THEN [raised |-> NULL, error |-> "Invoice not found"]
        ELSE IF "RetryQueue" \notin ServiceImports
        THEN [raised |-> "NameError"]
        ELSE [raised |-> NULL, error |-> NULL,
              invoices |-> [i \in found |->
                              [invoice |-> invs[i],
                               retry_status |-> retry_status(i)]]]

\* ------------------------------------ the service, one call after another
NoCall == [op |-> "none", raised |-> NULL]

Init ==
    /\ invoices = <<>>
    /\ history = <<>>
    /\ audit = <<>>
    /\ retry_queue = <<>>
    /\ documents = <<>>
    /\ now = 0
    /\ steps = 0
    /\ last = NoCall
    /\ reqs = <<>>
    /\ submitted = [k \in Pairs |-> 0]

\* One more step of the run
Step == steps < MaxSteps /\ steps' = steps + 1

Intake ==
    /\ Step
    /\ \E k \in Pairs, a \in Amounts :
           process_invoice_with_duplicate_check(k[1], k[2], a)
    /\ UNCHANGED <<now, reqs, submitted>>

\* The results handed in for record id: those of the record's provider;
\* Len(invoices) + 1 is an id no record has, and one result is enough for it
ResponsesFor(id) ==
    IF id \in 1..Len(invoices)
    THEN Responses(invoices[id].provider)
    ELSE {ProviderResponse(TRUE, "anaf", "INV-1", "EXT-1", "sent", "<x1>")}

ApplyResult ==
    /\ Step
    /\ \E id \in 1..(Len(invoices) + 1), act \in Actions :
           \E resp \in ResponsesFor(id) :
               update_invoice_status_with_history(id, resp, act)
    /\ UNCHANGED <<now, reqs, submitted>>

\* the provider filter of a sweep: none, or one provider
SweepProviders == {NULL, "anaf"}

Sweep ==
    /\ Step
    /\ \E p \in SweepProviders : process_retry_queue(p)
    /\ UNCHANGED <<now, reqs, submitted>>

\* Time passes between calls
Tick ==
    /\ Step
    /\ now' = now + TickMinutes
    /\ last' = [op |-> "tick", raised |-> NULL]
    /\ UNCHANGED <<invoices, history, audit, retry_queue, documents, reqs, submitted>>

Next == Intake \/ ApplyResult \/ Sweep \/ Tick

Spec == Init /\ [][Next]_vars


\* ------------------- the service and the retry scheduler's own operations,
\* called by a retry driver (RetryQueueCRUD.add_to_retry_queue and
\* RetryQueueCRUD.update_retry with their default delays)
EnqueueDelay == 30   \* crud.py: retry_after_minutes: int = 30
ResolveDelay == 60   \* crud.py: retry_after_minutes: int = 60
ErrorMessages == {"E1"}

\* RetryQueueCRUD.add_to_retry_queue for an existing record
Enqueue ==
    /\ Step
    /\ \E id \in 1..Len(invoices), msg \in ErrorMessages :
          /\ retry_queue' = add_to_retry_queue(retry_queue, id, invoices[id].stripe_id,
                                invoices[id].provider, msg, EnqueueDelay, now)
          /\ last' = [op |-> "enqueue", invoice_id |-> id, raised |-> NULL,
                      retry_id |-> Len(retry_queue) + 1]
    /\ UNCHANGED <<invoices, history, audit, documents, now, reqs, submitted>>

\* RetryQueueCRUD.update_retry; Len(retry_queue) + 1 is an id no entry has
Resolve ==
    /\ Step
    /\ \E rid \in 1..(Len(retry_queue) + 1), ok \in BOOLEAN, msg \in ErrorMessages :
          IF rid \in 1..Len(retry_queue)
          THEN /\ retry_queue' = update_retry(retry_queue, rid, ok, msg, ResolveDelay, now)
               /\ last' = [op |-> "resolve", retry_id |-> rid, success |-> ok,
                           raised |-> NULL]
          ELSE /\ last' = [op |-> "resolve", retry_id |-> rid, success |-> ok,
                           raised |-> "ValueError"]
               /\ UNCHANGED retry_queue
    /\ UNCHANGED <<invoices, history, audit, documents, now, reqs, submitted>>

NextSched == Intake \/ ApplyResult \/ Sweep \/ Tick \/ Enqueue \/ Resolve

SpecSched == Init /\ [][NextSched]_vars


\* ------------------------ api/endpoints/dashboard.py: the operator's manual
\* retry next to the service's operations
ManualMaxRetries == 3   \* dashboard.py: max_retries=3

\* POST /invoices/{invoice_id}/retry (retry_invoice): a FAILED record gets a
\* retry-queue row that is due at once; active and completed take the
\* column defaults, last_error stays NULL
retry_invoice(invoice_id) ==
    IF invoice_id \notin 1..Len(invoices)
    THEN /\ last' = [op |-> "retry_invoice", invoice_id |-> invoice_id,
                     raised |-> "HTTP_404"]
         /\ UNCHANGED retry_queue
    ELSE IF invoices[invoice_id].status \notin {"failed", "error"}
    THEN /\ last' = [op |-> "retry_invoice", invoice_id |-> invoice_id,
                     raised |-> "HTTP_400"]
         /\ UNCHANGED retry_queue
    ELSE /\ retry_queue' =
              Append(retry_queue,
                     [invoice_id |-> invoice_id,
                      stripe_id |-> invoices[invoice_id].stripe_id,
                      provider |-> invoices[invoice_id].provider,
                      retry_count |-> 0, max_retries |-> ManualMaxRetries,
                      retry_after |-> now, last_error |-> NULL,
                      active |-> TRUE, completed |-> FALSE])
         /\ last' = [op |-> "retry_invoice", invoice_id |-> invoice_id,
                     raised |-> NULL]

RetryInvoice ==
    /\ Len(retry_queue) < MaxManualRetries
    /\ \E id \in 1..(Len(invoices) + 1) : retry_invoice(id)
    /\ UNCHANGED <<invoices, history, audit, documents, now, steps, reqs, submitted>>

NextDash == Intake \/ ApplyResult \/ Sweep \/ Tick \/ RetryInvoice

SpecDash == Init /\ [][NextDash]_vars


\* ------------------------------ api/endpoints/invoices.py: the HTTP layer,
\* requests served side by side (several workers on one database).  A
\* request is a record: its kind, its provider, the source ids it names, the
\* index of the one it is at, where it is (pc), and the locals db_invoice.id
\* and result.
BatchItems == {<<"ch_1">>, <<"ch_1", "ch_2">>}
BatchProvider == "anaf"

NewRequest(kind, provider, items) ==
    [kind |-> kind, provider |-> provider, items |-> items, i |-> 1,
     pc |-> IF kind = "batch_async" THEN "bg_submit" ELSE "check",
     invoice_id |-> 0, resp |-> NULL]

\* POST /process (process_invoice), and POST /process/batch (process_batch)
\* with async_processing false or true
Arrive ==
    /\ Len(reqs) < MaxReqs
    /\ \/ \E k \in Pairs : reqs' = Append(reqs, NewRequest("single", k[2], <<k[1]>>))
       \/ \E kind \in {"batch_sync", "batch_async"}, items \in BatchItems :
             reqs' = Append(reqs, NewRequest(kind, BatchProvider, items))
    /\ last' = [op |-> "arrive", raised |-> NULL]
    /\ UNCHANGED <<invoices, history, audit, retry_queue, documents, now, steps, submitted>>

Item(r) == reqs[r].items[reqs[r].i]

\* The request after its current item: the loop of process_batch (lines
\* 195-200) or of _process_batch_async (line 357) goes to the next item
Advance(req) ==
    IF req.i < Len(req.items)
    THEN [req EXCEPT !.i = @ + 1,
                     !.pc = IF req.kind = "batch_async" THEN "bg_submit" ELSE "check",
                     !.invoice_id = 0, !.resp = NULL]
    ELSE [req EXCEPT !.pc = "done"]

\* process_invoice, lines 148-154: an exception of the item becomes an HTTP
\* 500, which also ends a synchronous batch (process_batch, lines 203-204)
Http500(req) == [req EXCEPT !.pc = "http_500"]

\* process_invoice, line 110 with services.py lines 52-71: the existence
\* check of the intake, and the duplicate path when a record is found
\* (lines 116-126: the existing status is returned, no submission)
ReqCheck(r) ==
    /\ reqs[r].pc = "check"
    /\ IF check_duplicate(invoices, Item(r), reqs[r].provider) # 0
       THEN /\ \E a \in Amounts : IntakeDuplicate(Item(r), reqs[r].provider, a)
            /\ reqs' = [reqs EXCEPT ![r] = Advance(@)]
       ELSE /\ reqs' = [reqs EXCEPT ![r].pc = "insert"]
            /\ last' = [op |-> "check", raised |-> NULL]
            /\ UNCHANGED <<invoices, history, audit, retry_queue, documents>>
    /\ UNCHANGED <<now, steps, submitted>>

\* process_invoice, line 110 with services.py lines 73-129: the insert of
\* the intake that found no record
ReqInsert(r) ==
    /\ reqs[r].pc = "insert"
    /\ \E a \in Amounts : InsertNew(Item(r), reqs[r].provider, a)
    /\ reqs' = [reqs EXCEPT ![r] =
                  IF last'.raised # NULL THEN Http500(@)
                  ELSE [@ EXCEPT !.pc = "submit", !.invoice_id = last'.invoice_id]]
    /\ UNCHANGED <<now, steps, submitted>>

\* process_invoice, line 129: result = await provider.create_invoice(...);
\* at this layer one accepted and one rejected result are told apart
\* anaf_provider.py, lines 66-73 (smartbill_provider.py, lines 75-82): the
\* result when validate_invoice_data finds errors in the caller's data
ValidationFailure(p) ==
    [ProviderResponse(FALSE, p, NULL, NULL, NULL, NULL)
        EXCEPT !.errors = <<"Customer name is required">>]

ApiResponses(p) ==
    {resp \in Responses(p) : Truthy(resp.message) /\ (resp.success => Truthy(resp.external_id))}
        \cup {ValidationFailure(p)}

ReqSubmit(r) ==
    /\ reqs[r].pc = "submit"
    /\ \E resp \in ApiResponses(reqs[r].provider) :
          reqs' = [reqs EXCEPT ![r].pc = "apply", ![r].resp = resp]
    /\ submitted' = [submitted EXCEPT ![<<Item(r), reqs[r].provider>>] = @ + 1]
    /\ last' = [op |-> "submit", raised |-> NULL]
    /\ UNCHANGED <<invoices, history, audit, retry_queue, documents, now, steps>>

\* process_invoice, lines 132-146: the result goes to the service
ReqApply(r) ==
    /\ reqs[r].pc = "apply"
    /\ update_invoice_status_with_history(reqs[r].invoice_id, reqs[r].resp,
                                          "create_invoice")
    /\ reqs' = [reqs EXCEPT ![r] =
                  IF last'.raised # NULL THEN Http500(@) ELSE Advance(@)]
    /\ UNCHANGED <<now, steps, submitted>>

\* _process_batch_async, line 387: await provider.create_invoice(invoice_data),
\* with no intake before it and no status update after it
BgSubmit(r) ==
    /\ reqs[r].pc = "bg_submit"
    /\ submitted' = [submitted EXCEPT ![<<Item(r), reqs[r].provider>>] = @ + 1]
    /\ reqs' = [reqs EXCEPT ![r] = Advance(@)]
    /\ last' = [op |-> "submit", raised |-> NULL]
    /\ UNCHANGED <<invoices, history, audit, retry_queue, documents, now, steps>>

NextApi ==
    \/ Arrive
    \/ \E r \in 1..Len(reqs) : ReqCheck(r)
    \/ \E r \in 1..Len(reqs) : ReqInsert(r)
    \/ \E r \in 1..Len(reqs) : ReqSubmit(r)
    \/ \E r \in 1..Len(reqs) : ReqApply(r)
    \/ \E r \in 1..Len(reqs) : BgSubmit(r)

SpecApi == Init /\ [][NextApi]_vars

\* ------------------- update_invoice_status_with_history, calls that overlap
\* Each call works in a session of its own (get_db_context, line 148); no row
\* is locked and ProcessedInvoice has no version column, so what one session
\* has loaded is not refreshed by the commit of another.  Calls are made on
\* records that exist.
NewCall(invoice_id, resp, action) ==
    [invoice_id |-> invoice_id, resp |-> resp, action |-> action,
     pc |-> "open_history", history_id |-> 0, loaded |-> <<>>]

CallArrive ==
    /\ Len(reqs) < MaxReqs
    /\ \E id \in 1..Len(invoices), act \in Actions :
          \E resp \in Responses(invoices[id].provider) :
             reqs' = Append(reqs, NewCall(id, resp, act))
    /\ last' = [op |-> "call", raised |-> NULL]
    /\ UNCHANGED <<invoices, history, audit, retry_queue, documents, now, steps, submitted>>

\* lines 150-159: create_history, with its commit
CallOpenHistory(r) ==
    /\ reqs[r].pc = "open_history"
    /\ history' = OpenHistory(reqs[r].invoice_id, reqs[r].resp, reqs[r].action)
    /\ reqs' = [reqs EXCEPT ![r].pc = "load", ![r].history_id = Len(history')]
    /\ last' = [op |-> "call_open_history", raised |-> NULL]
    /\ UNCHANGED <<invoices, audit, retry_queue, documents, now, steps, submitted>>

\* lines 162-164: the SELECT that loads the invoice into the session
CallLoad(r) ==
    /\ reqs[r].pc = "load"
    /\ reqs' = [reqs EXCEPT ![r].pc = "update_status",
                            ![r].loaded = <<invoices[reqs[r].invoice_id]>>]
    /\ last' = [op |-> "call_load", raised |-> NULL]
    /\ UNCHANGED <<invoices, history, audit, retry_queue, documents, now, steps, submitted>>

\* The UPDATE a session's commit sends for a loaded row: the columns whose
\* value differs from the loaded one, set to the value worked out in memory
Flush(row, loaded, changed) ==
    [f \in DOMAIN row |-> IF changed[f] # loaded[f] THEN changed[f] ELSE row[f]]

\* lines 170-179 or 211-218: history.stripe_id and InvoiceCRUD.update_status
\* (crud.py, lines 117-138) on the loaded object, written by its commit
CallUpdateStatus(r) ==
    LET c       == reqs[r]
        loaded  == c.loaded[1]
        changed == IF c.resp.success
                   THEN update_status(c.loaded, 1, COMPLETED, c.resp.invoice_id, NULL, now)[1]
                   ELSE update_status(c.loaded, 1, FAILED, NULL, c.resp.message, now)[1]
    IN  /\ c.pc = "update_status"
        /\ invoices' = [invoices EXCEPT ![c.invoice_id] = Flush(@, loaded, changed)]
        /\ history' = [history EXCEPT ![c.history_id].stripe_id = loaded.stripe_id]
        /\ reqs' = [reqs EXCEPT ![r].pc = "finish"]
        /\ last' = [op |-> "call_update_status", raised |-> NULL]
        /\ UNCHANGED <<audit, retry_queue, documents, now, steps, submitted>>

\* lines 181-209 after a success; line 225 after a failure (AttributeError)
CallFinish(r) ==
    LET c   == reqs[r]
        inv == invoices[c.invoice_id]
    IN  /\ c.pc = "finish"
        /\ IF c.resp.success
           THEN /\ history' = complete_history(history, c.history_id, "success", NULL, now)
                /\ audit' = create_audit_log(audit, inv.stripe_id, "completed",
                                             CompletedMeta(c.resp))
                /\ documents' = IF c.resp.data_xml # NULL
                                THEN SaveInvoiceDocument(documents, c.invoice_id,
                                                         inv.stripe_id, c.resp.provider,
                                                         "xml", c.resp.data_xml)
                                ELSE documents
                /\ reqs' = [reqs EXCEPT ![r].pc = "done"]
                /\ last' = [op |-> "call_finish", raised |-> NULL]
           ELSE /\ ~HasAttr(c.resp, "error")
                /\ reqs' = [reqs EXCEPT ![r].pc = "raised"]
                /\ last' = [op |-> "call_finish", raised |-> "AttributeError"]
                /\ UNCHANGED <<history, audit, documents>>
        /\ UNCHANGED <<invoices, retry_queue, now, steps, submitted>>

\* The records are created before the calls on them start
TxnIntake ==
    /\ reqs = <<>>
    /\ Len(audit) < MaxTxnIntakes
    /\ Intake

NextTxn ==
    \/ TxnIntake
    \/ CallArrive
    \/ \E r \in 1..Len(reqs) : CallOpenHistory(r)
    \/ \E r \in 1..Len(reqs) : CallLoad(r)
    \/ \E r \in 1..Len(reqs) : CallUpdateStatus(r)
    \/ \E r \in 1..Len(reqs) : CallFinish(r)

SpecTxn == Init /\ [][NextTxn]_vars

\* ------------------------------- intakes that bring different invoice data
\* InvoiceData.total of the calls: the same source can come with another
\* amount.  The amount stands for the columns amount, currency and
\* invoice_date, which one INSERT stores together (crud.py, lines 76-94).
SnapshotAmounts == {119, 238}

IntakeSnapshot ==
    /\ Step
    /\ \E k \in Pairs, a \in SnapshotAmounts :
           process_invoice_with_duplicate_check(k[1], k[2], a)
    /\ UNCHANGED <<now, reqs, submitted>>

NextSnap == IntakeSnapshot \/ ApplyResult \/ Sweep

SpecSnap == Init /\ [][NextSnap]_vars

\* ------------------------------------ the service under a polling retry driver
\* No code of the repository calls update_retry or feeds the rows of
\* process_retry_queue back; the driver below is the caller those two
\* functions are written for: it polls process_retry_queue, and for each
\* row returned it hands the provider's result to
\* update_invoice_status_with_history and then to update_retry, whether or
\* not the former raised.  reqs holds the rows of its current poll.
DriverResponses(p) == {resp \in Responses(p) : Truthy(resp.message) /\ Truthy(resp.data_xml) = resp.success /\ (resp.success => Truthy(resp.external_id))}

\* a run follows the retries of one record
DriverIntake ==
    /\ invoices = <<>>
    /\ Intake

\* the first result of a record, reported by the caller of the intake
DriverFirst ==
    /\ \E id \in 1..Len(invoices), act \in Actions :
          /\ invoices[id].status = PENDING
          /\ \E resp \in DriverResponses(invoices[id].provider) :
                update_invoice_status_with_history(id, resp, act)
    /\ UNCHANGED <<now, steps, reqs, submitted>>

\* a poll: the rows returned become the driver's work, in their order
DriverSweep ==
    /\ reqs = <<>>
    /\ process_retry_queue(NULL)
    /\ reqs' = [k \in 1..Len(last'.results) |->
                  [retry_id |-> last'.results[k].retry_id,
                   invoice_id |-> last'.results[k].invoice_id,
                   pc |-> "apply", success |-> FALSE, message |-> NULL]]
    /\ UNCHANGED <<now, steps, submitted>>

DriverApply ==
    /\ reqs # <<>>
    /\ reqs[1].pc = "apply"
    /\ \E resp \in DriverResponses(invoices[reqs[1].invoice_id].provider), act \in Actions :
          /\ update_invoice_status_with_history(reqs[1].invoice_id, resp, act)
          /\ reqs' = [reqs EXCEPT ![1].pc = "resolve", ![1].success = resp.success,
                                  ![1].message = resp.message]
    /\ UNCHANGED <<now, steps, submitted>>

DriverResolve ==
    /\ reqs # <<>>
    /\ reqs[1].pc = "resolve"
    /\ retry_queue' = update_retry(retry_queue, reqs[1].retry_id, reqs[1].success,
                                   reqs[1].message, ResolveDelay, now)
    /\ last' = [op |-> "resolve", retry_id |-> reqs[1].retry_id,
                success |-> reqs[1].success, raised |-> NULL]
    /\ reqs' = Tail(reqs)
    /\ UNCHANGED <<invoices, history, audit, documents, now, steps, submitted>>

\* rows that can still be returned by a poll, now or later
Pending(queue) ==
    { r \in 1..Len(queue) : /\ queue[r].active
                             /\ ~queue[r].completed
                             /\ queue[r].retry_count < queue[r].max_retries }

\* time passes while the driver has nothing to do and a row waits for its
\* retry_after
DriverTick ==
    /\ reqs = <<>>
    /\ ReadyRetries(retry_queue, NULL, now) = {}
    /\ \E r \in Pending(retry_queue) : retry_queue[r].retry_after > now
    /\ now' = now + TickMinutes
    /\ last' = [op |-> "tick", raised |-> NULL]
    /\ UNCHANGED <<invoices, history, audit, retry_queue, documents, steps, reqs, submitted>>

NextDriver ==
    \/ DriverIntake
    \/ DriverFirst
    \/ RetryInvoice
    \/ DriverSweep
    \/ DriverApply
    \/ DriverResolve
    \/ DriverTick

\* the driver keeps polling and finishes what it has started, time advances,
\* and every intake's caller reports its result
SpecDriver ==
    /\ Init
    /\ [][NextDriver]_vars
    /\ WF_vars(DriverFirst)
    /\ WF_vars(DriverSweep)
    /\ WF_vars(DriverApply)
    /\ WF_vars(DriverResolve)
    /\ WF_vars(DriverTick)

\* ------------------------------------------------------------- properties
\* ids of the records of a (source_id, provider) pair
RecordsFor(invs, source_id, provider) ==
    { i \in 1..Len(invs) : invs[i].stripe_id = source_id /\ invs[i].provider = provider }

\* the step is an intake call for pair k
IntakeOf(k) ==
    last'.op = "intake" /\ last'.source_id = k[1] /\ last'.provider = k[2]

\* seq2 is seq1 with one row appended
OneAppended(seq1, seq2) ==
    Len(seq2) = Len(seq1) + 1 /\ SubSeq(seq2, 1, Len(seq1)) = seq1

\* the source id and provider a request is working on
PairOf(req) == <<req.items[req.i], req.provider>>

\* C1: in every reachable state, requests racing or not, no two records of
\* the invoice table have the same (stripe_id, provider).
C1_OneRecordPerPair ==
    \A i, j \in 1..Len(invoices) :
        (invoices[i].stripe_id = invoices[j].stripe_id
         /\ invoices[i].provider = invoices[j].provider) => i = j

\* two intakes of one pair both passed the existence check, both went on to
\* insert, and the table holds the pair once
C1_Witness ==
    \E r1, r2 \in 1..Len(reqs) :
        /\ r1 # r2
        /\ PairOf(reqs[r1]) = PairOf(reqs[r2])
        /\ reqs[r1].pc \in {"submit", "apply", "done"}
        /\ reqs[r1].invoice_id # 0
        /\ reqs[r2].pc = "http_500"
        /\ reqs[r2].invoice_id = 0
        /\ Cardinality(RecordsFor(invoices, PairOf(reqs[r1])[1], PairOf(reqs[r1])[2])) = 1

\* C2: an intake that passed the existence check while the pair had no
\* record, and reaches its insert after another intake has created the
\* record, does not raise: it returns that record with is_duplicate = TRUE.
C2_RaceLoserGetsDuplicate ==
    [][\A r \in 1..Len(reqs) :
          (/\ reqs[r].pc = "insert"
           /\ RecordsFor(invoices, PairOf(reqs[r])[1], PairOf(reqs[r])[2]) # {}
           /\ reqs'[r] # reqs[r])
          => /\ last'.op = "intake"
             /\ last'.raised = NULL
             /\ last'.is_duplicate
             /\ last'.invoice_id
                  \in RecordsFor(invoices, PairOf(reqs[r])[1], PairOf(reqs[r])[2])]_vars

\* C3: over single requests, synchronous batches and background batches
\* together, the provider's create_invoice is called at most once for each
\* (source_id, provider).
C3_SubmittedAtMostOnce ==
    \A k \in Pairs : submitted[k] <= 1

C5_DuplicateIntakeFrame ==
    [][\A k \in Pairs :
         (RecordsFor(invoices, k[1], k[2]) # {} /\ IntakeOf(k))
         => /\ OneAppended(audit, audit')
            /\ audit'[Len(audit')].action = "duplicate_detected"
            /\ history' = history
            /\ retry_queue' = retry_queue
            /\ invoices' = invoices
            /\ documents' = documents]_vars

\* a duplicate intake has found a FAILED record and logged it
C5_Witness ==
    /\ last.op = "intake"
    /\ last.raised = NULL
    /\ last.is_duplicate
    /\ last.invoice.status = FAILED
    /\ last.invoice.last_error = "E1"
    /\ audit[Len(audit)].action = "duplicate_detected"
    /\ audit[Len(audit)].extra_metadata.status = FAILED

\* C6: an intake for a pair with no record returns is_duplicate = FALSE and
\* adds exactly one record (PENDING, attempts 0), exactly one history entry
\* for it ("created", "success") and exactly one audit entry ("created").
C6_IntakeCreates ==
    [][\A k \in Pairs :
         (RecordsFor(invoices, k[1], k[2]) = {} /\ IntakeOf(k))
         => /\ last'.raised = NULL
            /\ ~last'.is_duplicate
            /\ OneAppended(invoices, invoices')
            /\ last'.invoice_id = Len(invoices')
            /\ invoices'[Len(invoices')].stripe_id = k[1]
            /\ invoices'[Len(invoices')].provider = k[2]
            /\ invoices'[Len(invoices')].status = PENDING
            /\ invoices'[Len(invoices')].attempts = 0
            /\ OneAppended(history, history')
            /\ history'[Len(history')].invoice_id = Len(invoices')
            /\ history'[Len(history')].action = "created"
            /\ history'[Len(history')].status = "success"
            /\ OneAppended(audit, audit')
            /\ audit'[Len(audit')].action = "created"]_vars

\* the first intake has created record 1 with its history and audit entries
C6_Witness ==
    /\ last.op = "intake"
    /\ last.raised = NULL
    /\ ~last.is_duplicate
    /\ Len(invoices) = 1
    /\ invoices[1].status = PENDING
    /\ Len(history) = 1
    /\ Len(audit) = 1

\* C7: an intake of a source_id for one provider, made when a record of the
\* same source_id for another provider exists, is not a duplicate and creates
\* a second record with another id; the first of the two is no duplicate either.
C7_ProvidersIndependent ==
    [][\A k \in Pairs :
         (RecordsFor(invoices, k[1], k[2]) = {} /\ IntakeOf(k))
         => /\ last'.raised = NULL
            /\ ~last'.is_duplicate
            /\ RecordsFor(invoices', k[1], k[2]) = {last'.invoice_id}
            /\ \A q \in Providers \ {k[2]} :
                 /\ last'.invoice_id \notin RecordsFor(invoices, k[1], q)
                 /\ RecordsFor(invoices', k[1], q) = RecordsFor(invoices, k[1], q)]_vars

\* both providers have a record of ch_1, with different ids
C7_Witness ==
    /\ last.op = "intake"
    /\ last.raised = NULL
    /\ ~last.is_duplicate
    /\ \E i, j \in 1..Len(invoices) :
          /\ i # j
          /\ invoices[i].stripe_id = invoices[j].stripe_id
          /\ invoices[i].provider # invoices[j].provider
          /\ last.invoice_id = j

\* C8: no step lowers a record's attempts; an update_invoice_status_with_history
\* call on an existing record, success or failure, raises it by exactly 1;
\* an intake and a sweep leave it as it was.
C8_AttemptsMonotone ==
    [][\A i \in 1..Len(invoices) :
         /\ i \in 1..Len(invoices')
         /\ invoices'[i].attempts >= invoices[i].attempts
         /\ (last'.op = "apply" /\ last'.invoice_id = i)
                => invoices'[i].attempts = invoices[i].attempts + 1
         /\ last'.op \in {"intake", "sweep"}
                => invoices'[i].attempts = invoices[i].attempts]_vars

\* a record has been through a failed and a successful status update
C8_Witness ==
    /\ last.op = "apply"
    /\ last.invoice_id \in 1..Len(invoices)
    /\ invoices[last.invoice_id].attempts = 2
    /\ invoices[last.invoice_id].status = COMPLETED
    /\ invoices[last.invoice_id].last_error = "E1"


\* C9: update_invoice_status_with_history with a successful result that
\* carries an external id, on an existing record, leaves the record COMPLETED
\* with provider_invoice_id equal to that external id, processed_at set and
\* attempts raised by 1.
C9_SuccessStoresExternalId ==
    [][(/\ last'.op = "apply"
        /\ last'.invoice_id \in 1..Len(invoices)
        /\ last'.resp.success
        /\ Truthy(last'.resp.external_id))
       => /\ invoices'[last'.invoice_id].status = COMPLETED
          /\ invoices'[last'.invoice_id].provider_invoice_id = last'.resp.external_id
          /\ invoices'[last'.invoice_id].processed_at # NoTime
          /\ invoices'[last'.invoice_id].attempts
                 = invoices[last'.invoice_id].attempts + 1]_vars

\* C10: update_invoice_status_with_history with a failed result that carries
\* an error message, on an existing record, returns the record, FAILED, with
\* last_error equal to the message and attempts raised by 1.
C10_FailureReturnsFailedRecord ==
    [][(/\ last'.op = "apply"
        /\ last'.invoice_id \in 1..Len(invoices)
        /\ ~last'.resp.success
        /\ Truthy(last'.resp.message))
       => /\ last'.raised = NULL
          /\ last'.invoice.status = FAILED
          /\ last'.invoice.last_error = last'.resp.message
          /\ last'.invoice.attempts = invoices[last'.invoice_id].attempts + 1]_vars

\* the retry-queue rows of a record, and those of them that are active
EntriesFor(queue, invoice_id) ==
    { i \in 1..Len(queue) : queue[i].invoice_id = invoice_id }

ActiveFor(queue, invoice_id) ==
    { i \in EntriesFor(queue, invoice_id) : queue[i].active }

\* the calls of update_invoice_status_with_history made on a record so far:
\* each opens one history row and fills in the record's stripe_id (a call
\* made before the record existed left a row without it)
AppliesOn(hist, invoice_id) ==
    { i \in 1..Len(hist) : /\ hist[i].invoice_id = invoice_id
                            /\ hist[i].action \in Actions
                            /\ hist[i].stripe_id # "" }

\* C11: after any update_invoice_status_with_history on a record, the retry
\* queue holds at most max_retries (3) rows of that record, and a failed
\* result that brings attempts to 3 or more leaves the record FAILED and adds
\* no retry-queue row.
C11_RetryBound ==
    [][(/\ last'.op = "apply"
        /\ last'.invoice_id \in 1..Len(invoices))
       => /\ Cardinality(EntriesFor(retry_queue', last'.invoice_id)) <= DefaultMaxRetries
          /\ (/\ ~last'.resp.success
              /\ invoices'[last'.invoice_id].attempts >= RetryAttemptCap)
             => /\ invoices'[last'.invoice_id].status = FAILED
                /\ retry_queue' = retry_queue]_vars

\* a failed result has just brought a record's attempts to the cap
C11_Witness ==
    /\ last.op = "apply"
    /\ last.invoice_id \in 1..Len(invoices)
    /\ ~last.resp.success
    /\ invoices[last.invoice_id].attempts >= RetryAttemptCap
    /\ invoices[last.invoice_id].status = FAILED
    /\ EntriesFor(retry_queue, last.invoice_id) = {}

\* C12: when the third update_invoice_status_with_history on a record is a
\* failure and none before it succeeded, the record is FAILED with attempts 3
\* and has no active retry-queue row.
C12_ThreeFailures ==
    [][(/\ last'.op = "apply"
        /\ last'.invoice_id \in 1..Len(invoices)
        /\ ~last'.resp.success
        /\ Cardinality(AppliesOn(history', last'.invoice_id)) = 3
        /\ invoices'[last'.invoice_id].processed_at = NoTime)
       => /\ invoices'[last'.invoice_id].status = FAILED
          /\ invoices'[last'.invoice_id].attempts = 3
          /\ ActiveFor(retry_queue', last'.invoice_id) = {}]_vars

\* intake and three failed results, one after another, on one record
C12_Witness ==
    \E id \in 1..Len(invoices) :
        /\ last.op = "apply" /\ last.invoice_id = id /\ ~last.resp.success
        /\ Cardinality(AppliesOn(history, id)) = 3
        /\ \A i \in AppliesOn(history, id) : history[i].status = "processing"
        /\ invoices[id].processed_at = NoTime
        /\ invoices[id].attempts = 3

\* C13: the failure that brings a record's attempts to N, N < 3, appends a
\* retry-queue row of the record with retry_after = now + 30 * N.
C13_BackoffSchedule ==
    [][(/\ last'.op = "apply"
        /\ last'.invoice_id \in 1..Len(invoices)
        /\ ~last'.resp.success
        /\ invoices'[last'.invoice_id].attempts < 3)
       => /\ Len(retry_queue') = Len(retry_queue) + 1
          /\ retry_queue'[Len(retry_queue')].invoice_id = last'.invoice_id
          /\ retry_queue'[Len(retry_queue')].retry_after
                 = now + 30 * invoices'[last'.invoice_id].attempts]_vars

\* C14: after a failed result that leaves a record's attempts below 3, the
\* record has a retry-queue row that is active, not completed, with
\* retry_count 0 and last_error equal to the result's message, and
\* get_invoice_full_history reports it as the record's retry_status.
C14_FailureQueuesRetry ==
    [][(/\ last'.op = "apply"
        /\ last'.invoice_id \in 1..Len(invoices)
        /\ ~last'.resp.success
        /\ Truthy(last'.resp.message)
        /\ invoices'[last'.invoice_id].attempts < 3)
       => /\ \E r \in ActiveFor(retry_queue', last'.invoice_id) :
                /\ ~retry_queue'[r].completed
                /\ retry_queue'[r].retry_count = 0
                /\ retry_queue'[r].last_error = last'.resp.message
          /\ LET view == get_invoice_full_history(invoices', retry_queue',
                                                  invoices[last'.invoice_id].stripe_id,
                                                  invoices[last'.invoice_id].provider)
             IN  /\ view.raised = NULL
                 /\ view.invoices[last'.invoice_id].retry_status # NULL
                 /\ view.invoices[last'.invoice_id].retry_status.last_error
                        = last'.resp.message]_vars

\* the records a sweep's result names
Returned(results) == { results[k].invoice_id : k \in 1..Len(results) }

\* C15: in every reachable state a record has at most one active
\* retry-queue row.
C15_OneActiveEntry ==
    \A id \in 1..Len(invoices) : Cardinality(ActiveFor(retry_queue, id)) <= 1

\* C16: after update_invoice_status_with_history with a successful result on
\* a record, no retry-queue row of the record is active.
C16_SuccessDeactivates ==
    [][(/\ last'.op = "apply"
        /\ last'.invoice_id \in 1..Len(invoices)
        /\ last'.resp.success)
       => ActiveFor(retry_queue', last'.invoice_id) = {}]_vars

\* C17: process_retry_queue leaves every COMPLETED record COMPLETED.
C17_CompletedIsTerminal ==
    [][last'.op = "sweep"
       => \A id \in 1..Len(invoices) :
             invoices[id].status = COMPLETED => invoices'[id].status = COMPLETED]_vars

\* C18: process_retry_queue neither returns nor changes a FAILED record whose
\* attempts have reached 3.
C18_ExhaustedStaysFailed ==
    [][last'.op = "sweep"
       => \A id \in 1..Len(invoices) :
             (invoices[id].status = FAILED /\ invoices[id].attempts >= 3)
             => /\ invoices'[id].status = FAILED
                /\ id \notin Returned(last'.results)]_vars

\* C19: every retry-queue row a sweep returns has retry_after <= now at the
\* time of the sweep.
C19_NotBeforeRetryAfter ==
    [][last'.op = "sweep"
       => \A k \in 1..Len(last'.results) :
             retry_queue[last'.results[k].retry_id].retry_after <= now]_vars

\* a sweep returned a row that was due and left out an active one that was not
C19_Witness ==
    /\ last.op = "sweep"
    /\ \E k \in 1..Len(last.results) :
          retry_queue[last.results[k].retry_id].retry_after <= now
    /\ \E r \in 1..Len(retry_queue) :
          /\ retry_queue[r].active /\ ~retry_queue[r].completed
          /\ retry_queue[r].retry_count < retry_queue[r].max_retries
          /\ retry_queue[r].retry_after > now
          /\ (Truthy(last.provider) => retry_queue[r].provider = last.provider)
          /\ \A k \in 1..Len(last.results) : last.results[k].retry_id # r

\* C20: a process_retry_queue for a record's provider, called right after a
\* failed result left the record's attempts below 3, returns the record with
\* retry_count 0.
C20_FailedIsSweptNext ==
    [][(/\ last.op = "apply"
        /\ last.invoice_id \in 1..Len(invoices)
        /\ ~last.resp.success
        /\ invoices[last.invoice_id].attempts < 3
        /\ last'.op = "sweep"
        /\ last'.provider = invoices[last.invoice_id].provider)
       => \E k \in 1..Len(last'.results) :
             /\ last'.results[k].invoice_id = last.invoice_id
             /\ last'.results[k].retry_count = 0]_vars

\* the retry-queue rows a sweep's result names
ReturnedRows(results) == { results[k].retry_id : k \in 1..Len(results) }

C22_Resolve ==
    [][(last'.op = "resolve" /\ last'.retry_id \in 1..Len(retry_queue))
       => LET old == retry_queue[last'.retry_id]
              new == retry_queue'[last'.retry_id]
          IN  /\ last'.raised = NULL
              /\ Len(retry_queue') = Len(retry_queue)
              /\ \A i \in 1..Len(retry_queue) :
                    i # last'.retry_id => retry_queue'[i] = retry_queue[i]
              /\ new.retry_count = old.retry_count + 1
              /\ new.invoice_id = old.invoice_id
              /\ new.max_retries = old.max_retries
              /\ IF last'.success
                 THEN new.completed /\ ~new.active /\ new.retry_after = old.retry_after
                 ELSE /\ new.completed = old.completed
                      /\ IF new.retry_count >= new.max_retries
                         THEN ~new.active /\ new.retry_after = old.retry_after
                         ELSE /\ new.active = old.active
                              /\ new.retry_after = now + 60]_vars

\* a failed update_retry has just exhausted a row that an earlier failed one
\* had rescheduled
C22_Witness ==
    /\ last.op = "resolve"
    /\ last.retry_id \in 1..Len(retry_queue)
    /\ ~last.success
    /\ retry_queue[last.retry_id].retry_count = retry_queue[last.retry_id].max_retries
    /\ ~retry_queue[last.retry_id].active
    /\ ~retry_queue[last.retry_id].completed

\* C23: once a record's processed_at is set, no step changes it.
C23_ProcessedAtSetOnce ==
    [][\A id \in 1..Len(invoices) :
          invoices[id].processed_at # NoTime
          => invoices'[id].processed_at = invoices[id].processed_at]_vars

\* C24: update_invoice_status_with_history with an invoice_id no record has
\* raises, and leaves every table as it was.
C24_UnknownIdWritesNothing ==
    [][(last'.op = "apply" /\ last'.invoice_id \notin 1..Len(invoices))
       => /\ last'.raised # NULL
          /\ UNCHANGED <<invoices, history, audit, retry_queue, documents>>]_vars

\* C25: an intake, or an update_invoice_status_with_history on an existing
\* record, that ends in an exception leaves none of its writes behind.
C25_AllOrNothing ==
    [][(/\ \/ last'.op = "intake"
           \/ last'.op = "apply" /\ last'.invoice_id \in 1..Len(invoices)
        /\ last'.raised # NULL)
       => UNCHANGED <<invoices, history, audit, retry_queue, documents>>]_vars

\* C26: update_invoice_status_with_history on an existing record appends
\* exactly one history row, of that record, and leaves it with completed_at
\* and duration_ms set and with status "success" after a successful result,
\* "failed" and the result's message after a failed one.
C26_HistoryResolved ==
    [][(last'.op = "apply" /\ last'.invoice_id \in 1..Len(invoices))
       => /\ Len(history') = Len(history) + 1
          /\ \A i \in 1..Len(history) : history'[i] = history[i]
          /\ LET h == history'[Len(history')]
             IN  /\ h.invoice_id = last'.invoice_id
                 /\ h.completed_at # NoTime
                 /\ h.duration_ms # NoTime
                 /\ h.status = IF last'.resp.success THEN "success" ELSE "failed"
                 /\ (~last'.resp.success /\ Truthy(last'.resp.message))
                    => h.error_message = last'.resp.message]_vars

\* the documents stored under a key
DocsFor(docs, invoice_id, document_type, provider) ==
    { i \in 1..Len(docs) : /\ docs[i].invoice_id = invoice_id
                           /\ docs[i].document_type = document_type
                           /\ docs[i].provider = provider }

\* C27: after every step each (invoice_id, document_type, provider) has at
\* most one document, and a successful result that brings an XML for a key
\* that already has a document leaves the document table as it was.
C27_DocumentWriteOnce ==
    [][/\ \A i, j \in 1..Len(documents') :
             (/\ documents'[i].invoice_id = documents'[j].invoice_id
              /\ documents'[i].document_type = documents'[j].document_type
              /\ documents'[i].provider = documents'[j].provider) => i = j
       /\ (/\ last'.op = "apply"
           /\ last'.invoice_id \in 1..Len(invoices)
           /\ last'.resp.success
           /\ last'.resp.data_xml # NULL
           /\ DocsFor(documents, last'.invoice_id, "xml", last'.resp.provider) # {})
          => documents' = documents]_vars

\* a second successful result brought a different XML for a record whose
\* first XML is stored, and the first one is still the only one
C27_Witness ==
    /\ last.op = "apply"
    /\ last.invoice_id \in 1..Len(invoices)
    /\ last.resp.success
    /\ last.resp.data_xml # NULL
    /\ \E d \in 1..Len(documents) :
          /\ DocsFor(documents, last.invoice_id, "xml", last.resp.provider) = {d}
          /\ documents[d].document_content # last.resp.data_xml
          /\ documents[d].checksum = Sha256(documents[d].document_content)

\* C28: when the provider has rejected a request's invoice for validation
\* errors, no record and no retry-queue row exists for that source and
\* provider.
C28_ValidationCreatesNothing ==
    \A r \in 1..Len(reqs) :
        (/\ reqs[r].pc = "apply"
         /\ ~reqs[r].resp.success
         /\ reqs[r].resp.errors # <<>>)
        => /\ RecordsFor(invoices, PairOf(reqs[r])[1], PairOf(reqs[r])[2]) = {}
           /\ \A i \in 1..Len(retry_queue) :
                 ~(/\ retry_queue[i].stripe_id = PairOf(reqs[r])[1]
                   /\ retry_queue[i].provider = PairOf(reqs[r])[2])

\* C29: in every reachable state a record with status RETRY has a
\* retry-queue row that is active and not completed.
C29_RetryHasPendingEntry ==
    \A id \in 1..Len(invoices) :
        invoices[id].status = RETRY
        => \E r \in ActiveFor(retry_queue, id) : ~retry_queue[r].completed

\* C30: process_retry_queue leaves the retry queue and the history as they
\* are, and changes no record except that the status of each record it
\* returns becomes RETRY.
C30_SweepOnlySurfaces ==
    [][last'.op = "sweep"
       => /\ retry_queue' = retry_queue
          /\ history' = history
          /\ Len(invoices') = Len(invoices)
          /\ \A id \in 1..Len(invoices) :
                invoices'[id] =
                    IF id \in Returned(last'.results)
                    THEN [invoices[id] EXCEPT !.status = RETRY]
                    ELSE invoices[id]]_vars

C30_Witness ==
    /\ last.op = "sweep"
    /\ \E id \in Returned(last.results) :
          /\ invoices[id].status = RETRY
          /\ invoices[id].attempts > 0
          /\ retry_queue[CHOOSE r \in ReturnedRows(last.results) :
                            retry_queue[r].invoice_id = id].active

\* the calls of update_invoice_status_with_history whose update_status on a
\* record has committed
Updated(calls, invoice_id) ==
    { r \in 1..Len(calls) : /\ calls[r].invoice_id = invoice_id
                             /\ calls[r].pc \in {"finish", "done", "raised"} }

\* C31: a record's attempts is the number of update_invoice_status_with_history
\* calls that have updated it, also when the calls overlap.
C31_NoLostUpdate ==
    \A id \in 1..Len(invoices) :
        invoices[id].attempts = Cardinality(Updated(reqs, id))

\* C33: a completed retry-queue row is never active, and a row that is
\* inactive stays in the queue and stays inactive through every operation.
C33_InactiveForGood ==
    /\ [](\A r \in 1..Len(retry_queue) :
             retry_queue[r].completed => ~retry_queue[r].active)
    /\ [][\A r \in 1..Len(retry_queue) :
             ~retry_queue[r].active
             => /\ r \in 1..Len(retry_queue')
                /\ ~retry_queue'[r].active]_vars

\* update_retry has run, with a failure, on a row that was completed before
C33_Witness ==
    /\ last.op = "resolve"
    /\ last.raised = NULL
    /\ ~last.success
    /\ retry_queue[last.retry_id].completed
    /\ retry_queue[last.retry_id].retry_count < retry_queue[last.retry_id].max_retries
    /\ ~retry_queue[last.retry_id].active

\* C34: a record is created without a last_error, and the last_error of a
\* record changes only in a failed update_invoice_status_with_history on
\* that record, which sets it to a text; no operation, a later successful
\* one included, puts it back to none.
C34_LastErrorOnlyFromFailure ==
    [][\A id \in 1..Len(invoices') :
          LET before == IF id \in 1..Len(invoices)
                        THEN invoices[id].last_error ELSE NULL
          IN  invoices'[id].last_error # before
              => /\ last'.op = "apply"
                 /\ last'.invoice_id = id
                 /\ ~last'.resp.success
                 /\ invoices'[id].last_error # NULL]_vars

\* a successful result applied to a record that had failed before
C34_Witness ==
    /\ last.op = "apply"
    /\ last.raised = NULL
    /\ last.resp.success
    /\ invoices[last.invoice_id].status = COMPLETED
    /\ invoices[last.invoice_id].last_error # NULL

\* C35: update_invoice_status_with_history on an existing record appends
\* exactly one audit entry: "completed" for a successful result, "failed"
\* with the record's new attempts for a failed one.
C35_OneAuditEntry ==
    [][(/\ last'.op = "apply"
        /\ last'.invoice_id \in 1..Len(invoices))
       => /\ Len(audit') = Len(audit) + 1
          /\ SubSeq(audit', 1, Len(audit)) = audit
          /\ audit'[Len(audit')].resource_id = invoices[last'.invoice_id].stripe_id
          /\ IF last'.resp.success
             THEN audit'[Len(audit')].action = "completed"
             ELSE /\ audit'[Len(audit')].action = "failed"
                  /\ audit'[Len(audit')].extra_metadata.attempts
                        = invoices'[last'.invoice_id].attempts]_vars

\* C36: after a successful update_invoice_status_with_history whose result
\* brings an XML, a document with a checksum exists for (invoice id, "xml",
\* provider); a call with a failed result leaves the documents as they were.
C36_DocumentOnSuccessOnly ==
    [][(/\ last'.op = "apply"
        /\ last'.invoice_id \in 1..Len(invoices))
       => IF last'.resp.success
          THEN last'.resp.data_xml # NULL
               => \E d \in DocsFor(documents', last'.invoice_id, "xml",
                                   last'.resp.provider) :
                     documents'[d].checksum # NULL
          ELSE documents' = documents]_vars

\* a result with an XML has been stored as the first document of its
\* record, and a failed result came after it
C36_Witness ==
    /\ last.op = "apply"
    /\ last.invoice_id \in 1..Len(invoices)
    /\ ~last.resp.success
    /\ \E d \in DocsFor(documents, last.invoice_id, "xml", last.resp.provider) :
          documents[d].checksum = Sha256(documents[d].document_content)

\* C37: no operation removes a history entry, and an entry whose
\* completed_at is set keeps its status, completed_at, duration_ms and
\* error_message through every later operation.
C37_HistoryAppendOnly ==
    [][/\ Len(history') >= Len(history)
       /\ \A i \in 1..Len(history) :
             history[i].completed_at # NoTime
             => /\ history'[i].status = history[i].status
                /\ history'[i].completed_at = history[i].completed_at
                /\ history'[i].duration_ms = history[i].duration_ms
                /\ history'[i].error_message = history[i].error_message]_vars

\* a second result was applied, later, to a record that has a completed
\* entry from the first
C37_Witness ==
    /\ last.op = "apply"
    /\ \E i, j \in 1..Len(history) :
          /\ i < j
          /\ history[i].invoice_id = history[j].invoice_id
          /\ history[i].invoice_id = last.invoice_id
          /\ history[i].completed_at # NoTime
          /\ history[j].completed_at # NoTime
          /\ history[i].completed_at < history[j].completed_at

\* C38: no operation removes a record or changes its stripe_id, provider or
\* amount, and an intake that finds the record already there, whatever
\* amount it brings, leaves the invoice table as it was.
C38_SnapshotFixed ==
    [][/\ Len(invoices') >= Len(invoices)
       /\ \A id \in 1..Len(invoices) :
             /\ invoices'[id].stripe_id = invoices[id].stripe_id
             /\ invoices'[id].provider = invoices[id].provider
             /\ invoices'[id].amount = invoices[id].amount
             /\ invoices'[id].created_at = invoices[id].created_at
       /\ (last'.op = "intake" /\ last'.is_duplicate) => invoices' = invoices]_vars

\* records with both amounts exist, one of them has had two results
\* applied, and the last call was a duplicate intake for it (the step is
\* taken for each amount of SnapshotAmounts)
C38_Witness ==
    /\ last.op = "intake"
    /\ last.is_duplicate
    /\ invoices[last.invoice_id].status = COMPLETED
    /\ invoices[last.invoice_id].attempts > 1
    /\ { invoices[id].amount : id \in 1..Len(invoices) } = SnapshotAmounts

====
